---- MODULE Spec2Model ----
(***************************************************************************)
(* Covered-call backtest engine (lib/backtest.ts, lib/optionMath.ts).      *)
(*                                                                         *)
(* Numbers.  The engine works in IEEE doubles; the model works in fixed    *)
(* point.  Dimensionless quantities (deltas, rates, volatilities, d1,      *)
(* probabilities) are integers in units of 1/SCALE, money (prices,         *)
(* strikes, premiums, cash) is in cents, and a term T is in millionths of  *)
(* a year.  Every product is rescaled with round-to-nearest (RDiv).        *)
(***************************************************************************)
EXTENDS Integers, Sequences, FiniteSets, TLC

\* ------------------------------------------------------------------------
\* Fixed-point arithmetic
\* ------------------------------------------------------------------------
SCALE == 10 ^ 4
CENTS == 10 ^ 2
TUNIT == 10 ^ 6

Abs(x) == IF x < 0 THEN -x ELSE x
Min(a, b) == IF a < b THEN a ELSE b
Max(a, b) == IF a > b THEN a ELSE b

\* a / b rounded to the nearest integer (b > 0), halves towards plus infinity
RDiv(a, b) == (a + b \div 2) \div b

\* x * y for x, y in units of 1/SCALE
Mul(x, y) == RDiv(x * y, SCALE)

\* Math.floor(a / b) for b > 0
FloorDiv(a, b) == a \div b

\* Math.sqrt of n (an integer), rounded down: Newton's iteration from above
RECURSIVE SqrtIter(_, _)
SqrtIter(n, x) ==
  LET y == (x + n \div x) \div 2
  IN IF y >= x THEN x ELSE SqrtIter(n, y)

ISqrt(n) == IF n <= 0 THEN 0 ELSE SqrtIter(n, Min(n, 46340))

\* Math.sqrt(T) in units of 1/SCALE, for T in units of 1/TUNIT
SqrtT(T) == ISqrt(T * 100)

\* Math.exp(-y) for y >= 0, units of 1/SCALE: e^-1 to the whole part times the
\* Taylor series of the fractional part
RECURSIVE ExpNegInt(_)
ExpNegInt(n) == IF n = 0 THEN SCALE ELSE Mul(3679, ExpNegInt(n - 1))

ExpNegFrac(f) ==
  LET f2 == Mul(f, f)
      f3 == Mul(f2, f)
      f4 == Mul(f3, f)
      f5 == Mul(f4, f)
      f6 == Mul(f5, f)
      f7 == Mul(f6, f)
  IN SCALE - f + RDiv(f2, 2) - RDiv(f3, 6) + RDiv(f4, 24) - RDiv(f5, 120)
       + RDiv(f6, 720) - RDiv(f7, 5040)

ExpNeg(y) ==
  IF y >= 12 * SCALE THEN 0
  ELSE Mul(ExpNegInt(y \div SCALE), ExpNegFrac(y % SCALE))

\* Math.exp(x), units of 1/SCALE
Exp(x) == IF x <= 0 THEN ExpNeg(-x) ELSE RDiv(SCALE * SCALE, ExpNeg(x))

\* Math.log(a / b) for a, b > 0 with a/b within [1/4, 4]: 2 atanh((a-b)/(a+b))
Ln(a, b) ==
  LET y  == RDiv((a - b) * SCALE, a + b)
      y2 == Mul(y, y)
      y3 == Mul(y2, y)
      y5 == Mul(y3, y2)
      y7 == Mul(y5, y2)
      y9 == Mul(y7, y2)
  IN 2 * (y + RDiv(y3, 3) + RDiv(y5, 5) + RDiv(y7, 7) + RDiv(y9, 9))

\* ------------------------------------------------------------------------
\* lib/optionMath.ts
\* ------------------------------------------------------------------------
\* normCDF: the Zelen & Severo polynomial.  Beyond |x| = 4.5 the tail is below
\* half a unit of 1/SCALE and m is 1 at the model's resolution.
normCDF(x) ==
  LET ax == Abs(x)
      k  == RDiv(SCALE * SCALE, SCALE + RDiv(2316 * ax, SCALE))
      k2 == Mul(k, k)
      k3 == Mul(k2, k)
      k4 == Mul(k3, k)
      k5 == Mul(k4, k)
      poly == RDiv(3194 * k - 3566 * k2 + 17815 * k3 - 18213 * k4 + 13303 * k5, SCALE)
      pdf == Mul(3989, ExpNeg(RDiv(ax * ax, 2 * SCALE)))
      m == IF ax >= 45000 THEN SCALE ELSE SCALE - Mul(pdf, poly)
  IN IF x >= 0 THEN m ELSE SCALE - m

\* d1 of Black-Scholes, units of 1/SCALE; S, K in cents, T in 1/TUNIT
D1(S, K, r, q, sigma, T) ==
  LET drift == RDiv((r - q + RDiv(Mul(sigma, sigma), 2)) * T, TUNIT)
      vol == Mul(sigma, SqrtT(T))
  IN RDiv((Ln(S, K) + drift) * SCALE, vol)

\* exp(-x T), units of 1/SCALE
Discount(x, T) == Exp(-RDiv(x * T, TUNIT))

bsCallPrice(S, K, r, q, sigma, T) ==
  IF sigma <= 0 \/ T <= 0
  THEN Max(0, Mul(S, Discount(q, T)) - Mul(K, Discount(r, T)))
  ELSE LET d1 == D1(S, K, r, q, sigma, T)
           d2 == d1 - Mul(sigma, SqrtT(T))
       IN Mul(Mul(S, Discount(q, T)), normCDF(d1))
            - Mul(Mul(K, Discount(r, T)), normCDF(d2))

bsCallDelta(S, K, r, q, sigma, T) ==
  IF sigma <= 0 \/ T <= 0
  THEN IF S > K THEN SCALE ELSE 0
  ELSE Mul(Discount(q, T), normCDF(D1(S, K, r, q, sigma, T)))

BisectSteps == 60

\* a loop body that moves the wrong bound
NarrowReversed(low, high, S, targetDelta, r, q, sigma, T) ==
  LET mid == (low + high) \div 2
      d == bsCallDelta(S, mid, r, q, sigma, T)
  IN IF d > targetDelta THEN <<low, mid>> ELSE <<mid, high>>

\* The body of the loop of findStrikeForTargetDelta: the bracket <<low, high>>
\* after one step
Narrow(low, high, S, targetDelta, r, q, sigma, T) ==
  LET mid == (low + high) \div 2
      d == bsCallDelta(S, mid, r, q, sigma, T)
  IN IF d > targetDelta THEN <<mid, high>> ELSE <<low, mid>>

\* The loop of findStrikeForTargetDelta; n counts the steps still to run.  Strikes
\* are whole cents, so once high - low <= 1 every further step has mid = low and
\* leaves (low + high) \div 2 = low: the remaining steps are not replayed.
RECURSIVE Bisect(_, _, _, _, _, _, _, _, _)
Bisect(low, high, n, S, targetDelta, r, q, sigma, T) ==
  IF n = 0 \/ high - low <= 1 THEN (low + high) \div 2
  ELSE LET mid == (low + high) \div 2
           d == bsCallDelta(S, mid, r, q, sigma, T)
       IN IF d > targetDelta
          THEN Bisect(mid, high, n - 1, S, targetDelta, r, q, sigma, T)
          ELSE Bisect(low, mid, n - 1, S, targetDelta, r, q, sigma, T)

findStrikeForTargetDelta(S, targetDelta, r, q, sigma, T) ==
  Bisect(S \div 2, 2 * S, BisectSteps, S, targetDelta, r, q, sigma, T)

\* estimateHV(close): annualised sample standard deviation of the log returns;
\* 0.2 with fewer than two returns.  Prices are positive, so every return is
\* finite and none is discarded.
RECURSIVE SumSeq(_)
SumSeq(s) == IF s = <<>> THEN 0 ELSE Head(s) + SumSeq(Tail(s))

estimateHV(close) ==
  LET n == Len(close) - 1
      rets == [k \in 1..n |-> Ln(close[k + 1], close[k])]
  IN IF n < 2 THEN 2000
     ELSE LET mean == RDiv(SumSeq(rets), n)
              \* the variance is kept in units of 1/SCALE^2
              v == RDiv(SumSeq([k \in 1..n |-> (rets[k] - mean) * (rets[k] - mean)]), n - 1)
              dailyVol == ISqrt(v)
          IN RDiv(dailyVol * 158745, SCALE)

\* ------------------------------------------------------------------------
\* Optional values: undefined / null / NaN is <<>>, a present value v is <<v>>
\* ------------------------------------------------------------------------
None == <<>>
Some(v) == <<v>>
Val(o) == o[1]

\* ------------------------------------------------------------------------
\* Dates.  A date string 'YYYY-MM-DD' is the triple <<Y, M, D>>; a Date object
\* is its day number since 1970-01-01 (UTC).
\* ------------------------------------------------------------------------
\* Date.UTC(y, m, d) / 86400000
DaysFromCivil(y, m, d) ==
  LET yy  == IF m <= 2 THEN y - 1 ELSE y
      era == yy \div 400
      yoe == yy - era * 400
      mp  == IF m > 2 THEN m - 3 ELSE m + 9
      doy == (153 * mp + 2) \div 5 + d - 1
      doe == yoe * 365 + yoe \div 4 - yoe \div 100 + doy
  IN era * 146097 + doe - 719468

\* <<getUTCFullYear(), getUTCMonth() + 1, getUTCDate()>> of a day number
CivilFromDays(z) ==
  LET zz  == z + 719468
      era == zz \div 146097
      doe == zz - era * 146097
      yoe == (doe - doe \div 1460 + doe \div 36524 - doe \div 146096) \div 365
      doy == doe - (365 * yoe + yoe \div 4 - yoe \div 100)
      mp  == (5 * doy + 2) \div 153
      d   == doy - (153 * mp + 2) \div 5 + 1
      m   == IF mp < 10 THEN mp + 3 ELSE mp - 9
      y   == yoe + era * 400 + (IF m <= 2 THEN 1 ELSE 0)
  IN <<y, m, d>>

\* new Date(d + 'T00:00:00Z')
ParseDate(d) == DaysFromCivil(d[1], d[2], d[3])

\* getUTCDay(): 0 = Sunday; 1970-01-01 was a Thursday
getUTCDay(z) == (z + 4) % 7

\* getUTCMonth(): 0 = January
getUTCMonth(z) == CivilFromDays(z)[2] - 1

getISOWeek(date) ==
  LET dayNum == IF getUTCDay(date) = 0 THEN 7 ELSE getUTCDay(date)
      tmp == date + 4 - dayNum
      yearStart == DaysFromCivil(CivilFromDays(tmp)[1], 1, 1)
  IN ((tmp - yearStart) + 1 + 6) \div 7

\* a run that is never extended past its first day
WeekRunEndFirstDay(dObjs, j, week) == j

\* ------------------------------------------------------------------------
\* generateCycleBoundaries: a flat list of 0-based (start, end) index pairs
\* ------------------------------------------------------------------------
\* the inner while loops: the last j >= i whose successors up to j share the key
RECURSIVE WeekRunEnd(_, _, _)
WeekRunEnd(dObjs, j, week) ==
  IF j + 1 < Len(dObjs) /\ getISOWeek(dObjs[j + 2]) = week
  THEN WeekRunEnd(dObjs, j + 1, week)
  ELSE j

RECURSIVE MonthRunEnd(_, _, _)
MonthRunEnd(dObjs, j, i) ==
  IF j + 1 < Len(dObjs) /\ getUTCMonth(dObjs[j + 2]) = getUTCMonth(dObjs[i + 1])
  THEN MonthRunEnd(dObjs, j + 1, i)
  ELSE j

RECURSIVE WeeklyLoop(_, _, _, _)
WeeklyLoop(dObjs, i, prevWeek, boundaries) ==
  IF i >= Len(dObjs) THEN boundaries
  ELSE LET week == getISOWeek(dObjs[i + 1])
       IN IF prevWeek # week
          THEN WeeklyLoop(dObjs, i + 1, week,
                          boundaries \o <<i, WeekRunEnd(dObjs, i, week)>>)
          ELSE WeeklyLoop(dObjs, i + 1, prevWeek, boundaries)

RECURSIVE MonthlyLoop(_, _, _)
MonthlyLoop(dObjs, i, boundaries) ==
  IF i >= Len(dObjs) THEN boundaries
  ELSE LET j == MonthRunEnd(dObjs, i, i)
       IN MonthlyLoop(dObjs, j + 1, boundaries \o <<i, j>>)

generateCycleBoundaries(dates, freq) ==
  IF Len(dates) = 0 THEN <<>>
  ELSE LET dObjs == [k \in 1..Len(dates) |-> ParseDate(dates[k])]
       IN IF freq = "weekly"
          THEN WeeklyLoop(dObjs, 0, -1, <<>>)
          ELSE MonthlyLoop(dObjs, 0, <<>>)

\* ------------------------------------------------------------------------
\* runBacktest: set-up (the statements before the per-day loop)
\* ------------------------------------------------------------------------
\* d.adjClose ?? d.close
RowPrice(row) == IF row.adjClose # None THEN Val(row.adjClose) ELSE row.close

\* T as the code forms it: Math.max(n / 252, 1 / 252), in units of 1/TUNIT
Term(n) == Max(RDiv(n * TUNIT, 252), RDiv(TUNIT, 252))

\* a clamp with Math.min and Math.max exchanged
clampDeltaSwapped(d) == Max(9500, Min(500, d))

clampDelta(d) == Min(9500, Max(500, d))

\* typeof x === 'number' && Number.isFinite(x) ? x : dflt
FiniteOr(o, dflt) == IF o # None THEN Val(o) ELSE dflt

StrikeTargetDelta(params) == clampDelta(FiniteOr(params.targetDelta, 3000))

RollDeltaTrigger(params) == clampDelta(FiniteOr(params.rollDeltaThreshold, 7000))

\* Math.max(0, Math.min(4, Math.floor(x))), or null
ScheduledRollOffset(params) ==
  IF params.rollDaysBeforeExpiry # None
  THEN Some(Max(0, Min(4, FloorDiv(Val(params.rollDaysBeforeExpiry), SCALE))))
  ELSE None

ImpliedVol(params, hv) ==
  IF params.ivOverride # None /\ Val(params.ivOverride) > 0
  THEN Val(params.ivOverride)
  ELSE hv

\* dateToIndex keeps the last index of a date; the indices of the earnings dates
EarningsIndices(dates, params) ==
  {k - 1 : k \in {j \in 1..Len(dates) :
                    /\ dates[j] \in params.earningsDates
                    /\ \A l \in (j + 1)..Len(dates) : dates[l] # dates[j]}}

\* a test that does not ask whether earnings weeks are to be skipped
hasEarningsAfterFirstCycle(params, earningsIndices, startIdx, endIdx) ==
  /\ params.skipEarningsWeek
  /\ startIdx # 0
  /\ \E k \in startIdx..endIdx : k \in earningsIndices

hasEarningsAnyway(params, earningsIndices, startIdx, endIdx) ==
  \E k \in startIdx..endIdx : k \in earningsIndices

\* a test that looks at the first day of the cycle only
hasEarningsAtCycleStart(params, earningsIndices, startIdx, endIdx) ==
  params.skipEarningsWeek /\ startIdx \in earningsIndices

hasEarningsInCycle(params, earningsIndices, startIdx, endIdx) ==
  IF ~params.skipEarningsWeek THEN FALSE
  ELSE \E k \in startIdx..endIdx : k \in earningsIndices

\* a buy-and-hold curve that leaves the initial capital out
BuyAndHoldSharesOnly(params, prices) ==
  [k \in 1..Len(prices) |-> params.shares * prices[k]]

\* bh_value.push(params.initialCapital + params.shares * prices[i])
BuyAndHold(params, prices) ==
  [k \in 1..Len(prices) |-> params.initialCapital + params.shares * prices[k]]

\* the state at the head of the loop, i = 0
Start(ohlc, params) ==
  LET dates == [k \in 1..Len(ohlc) |-> ohlc[k].date]
      prices == [k \in 1..Len(ohlc) |-> RowPrice(ohlc[k])]
      hv == estimateHV(prices)
  IN [ pc |-> IF Len(prices) > 0 THEN "roll" ELSE "finish",
       i |-> 0,
       dates |-> dates,
       prices |-> prices,
       hv |-> hv,
       iv |-> ImpliedVol(params, hv),
       strikeTargetDelta |-> StrikeTargetDelta(params),
       rollDeltaTrigger |-> RollDeltaTrigger(params),
       scheduledRollOffset |-> ScheduledRollOffset(params),
       boundaries |-> generateCycleBoundaries(dates, params.freq),
       earningsIndices |-> EarningsIndices(dates, params),
       bh_value |-> BuyAndHold(params, prices),
       cash |-> params.initialCapital,
       shares |-> params.shares,
       baseContractQty |-> FloorDiv(params.shares, 100),
       openCall |-> None,
       cc_value |-> <<>>,
       callStrikeSeries |-> <<>>,
       callDeltaSeries |-> <<>>,
       settlements |-> <<>>,
       rollEvents |-> <<>>,
       settlementNote |-> None,
       \* history, not program state: positions opened so far, and the
       \* delivery of every assignment
       opened |-> 0,
       deliveries |-> <<>> ]

\* ------------------------------------------------------------------------
\* runBacktest: the per-day loop.  Each step maps the loop state st to the
\* state after it; pc is the position inside the iteration.
\* ------------------------------------------------------------------------
NumDays(st) == Len(st.prices)

PriceAt(st, i) == st.prices[i + 1]

\* a contract count that follows the current holding whatever the sizing
ContractQtyDynamic(params, shares, baseContractQty) == FloorDiv(shares, 100)

\* params.dynamicContracts ? Math.floor(shares / 100) : baseContractQty
ContractQty(params, shares, baseContractQty) ==
  IF params.dynamicContracts THEN FloorDiv(shares, 100) ELSE baseContractQty

\* a ledger total that leaves the shares out
LedgerTotalCashOnly(cash, shares, S) == cash

\* cash + shares * prices[i]: the value of the ledger at the price S
LedgerTotal(cash, shares, S) == cash + shares * S

\* a guard that lets an empty contract through
CanOpenZero(qty) == qty >= 0

\* a contract is written only for a positive number of lots
CanOpen(qty) == qty > 0

\* Math.round(strike) of a strike in cents
RoundStrike(strike) == RDiv(strike, CENTS) * CENTS

\* a reinvestment that rounds the number of shares up
ReinvestRoundUp(params, cash, shares, premiumCash, S) ==
  IF params.reinvestPremium
  THEN LET lotShares == FloorDiv(premiumCash + S - 1, S)
       IN [cash |-> cash - lotShares * S, shares |-> shares + lotShares]
  ELSE [cash |-> cash, shares |-> shares]

\* a reinvestment that adds the shares without paying for them
ReinvestFree(params, cash, shares, premiumCash, S) ==
  IF params.reinvestPremium
  THEN [cash |-> cash, shares |-> shares + FloorDiv(premiumCash, S)]
  ELSE [cash |-> cash, shares |-> shares]

\* the reinvestment of a premium just credited: [cash, shares] after it
Reinvest(params, cash, shares, premiumCash, S) ==
  IF params.reinvestPremium
  THEN LET lotShares == FloorDiv(premiumCash, S)
       IN IF lotShares > 0
          THEN [cash |-> cash - lotShares * S, shares |-> shares + lotShares]
          ELSE [cash |-> cash, shares |-> shares]
  ELSE [cash |-> cash, shares |-> shares]

\* a delta trigger that is still armed two days before expiry
MeetsDeltaTriggerTwoDays(daysToExpiry, currentDelta, rollDeltaTrigger) ==
  daysToExpiry >= 2 /\ currentDelta >= rollDeltaTrigger

\* daysToExpiry > 2 && currentDelta >= rollDeltaTrigger
MeetsDeltaTrigger(daysToExpiry, currentDelta, rollDeltaTrigger) ==
  daysToExpiry > 2 /\ currentDelta >= rollDeltaTrigger

\* a scheduled trigger that is no longer armed on the expiry day
MeetsScheduledRollBeforeExpiry(scheduledRollOffset, oc, i) ==
  IF scheduledRollOffset # None
  THEN i >= Max(oc.sellIdx, oc.expIdx - Val(scheduledRollOffset)) /\ i < oc.expIdx
  ELSE FALSE

\* targetIndex = Math.max(sellIdx, expIdx - scheduledRollOffset); i >= targetIndex
MeetsScheduledRoll(scheduledRollOffset, oc, i) ==
  IF scheduledRollOffset # None
  THEN i >= Max(oc.sellIdx, oc.expIdx - Val(scheduledRollOffset))
  ELSE FALSE

\* a label that never names the delta trigger
RollReasonScheduled(meetsDeltaTrigger) == "scheduled"

\* meetsDeltaTrigger ? 'delta' : 'scheduled'
RollReason(meetsDeltaTrigger) == IF meetsDeltaTrigger THEN "delta" ELSE "scheduled"

\* an expiry index that is not capped at the last index of the series
NewExpIdxUncapped(n, expIdx, i) ==
  IF expIdx + 5 <= i THEN i + 1 ELSE expIdx + 5

\* the expiry index of the contract a roll on day i re-opens
NewExpIdx(n, expIdx, i) ==
  LET newExpIdx == Min(n - 1, expIdx + 5)
  IN IF newExpIdx <= i THEN Min(n - 1, i + 1) ELSE newExpIdx

\* a roll strike without the floor above the rolled strike
RollStrikeNoFloor(params, solved, oldStrike, meetsDeltaTrigger) ==
  IF params.roundStrikeToInt THEN RoundStrike(solved) ELSE solved

\* the strike of the contract a roll re-opens
RollStrike(params, solved, oldStrike, meetsDeltaTrigger) ==
  LET newStrike == IF params.roundStrikeToInt THEN RoundStrike(solved) ELSE solved
      minIncrement == IF params.roundStrikeToInt THEN CENTS
                      ELSE Max(50, RDiv(newStrike, 100))
  IN IF meetsDeltaTrigger /\ newStrike <= oldStrike
     THEN IF params.roundStrikeToInt
          THEN RoundStrike(oldStrike + minIncrement)
          ELSE oldStrike + minIncrement
     ELSE newStrike

\* an iteration that settles before it looks for a new position
NextCheckSettleFirst(pc) ==
  CASE pc = "roll" -> "settle"
    [] pc = "settle" -> "open"
    [] pc = "open" -> "mark"

\* the statement order of the loop body: the check that follows each check
NextCheck(pc) ==
  CASE pc = "roll" -> "open"
    [] pc = "open" -> "settle"
    [] pc = "settle" -> "mark"

\* step 1, the roll check
RollCheck(st, params) ==
  IF ~(params.enableRoll /\ st.openCall # None) THEN [st EXCEPT !.pc = NextCheck("roll")]
  ELSE
    LET oc == Val(st.openCall)
        i == st.i
        S == PriceAt(st, i)
        daysToExpiry == oc.expIdx - i
        timeToExpiry == Term(daysToExpiry)
        currentDelta == bsCallDelta(S, oc.strike, params.r, params.q, st.iv, timeToExpiry)
        meetsDeltaTrigger == MeetsDeltaTrigger(daysToExpiry, currentDelta, st.rollDeltaTrigger)
        meetsScheduledRoll == MeetsScheduledRoll(st.scheduledRollOffset, oc, i)
    IN IF daysToExpiry < 0 \/ ~(meetsDeltaTrigger \/ meetsScheduledRoll)
       THEN [st EXCEPT !.pc = NextCheck("roll")]
       ELSE
         LET closeValue == bsCallPrice(S, oc.strike, params.r, params.q, st.iv, timeToExpiry)
             closeCost == closeValue * (oc.qty * 100)
             cash1 == st.cash - closeCost
             rollPnl == (oc.premium - closeValue) * (oc.qty * 100)
             totalAfterClose == LedgerTotal(cash1, st.shares, S)
             rollRecord == [ index |-> i, date |-> st.dates[i + 1],
                             totalValue |-> totalAfterClose, pnl |-> rollPnl,
                             strike |-> oc.strike, underlying |-> S,
                             premium |-> oc.premium, qty |-> oc.qty,
                             type |-> "roll", delta |-> currentDelta,
                             rollReason |-> RollReason(meetsDeltaTrigger) ]
             newExpIdx == NewExpIdx(NumDays(st), oc.expIdx, i)
             newTerm == Term(newExpIdx - i)
             newStrike == RollStrike(params,
                            findStrikeForTargetDelta(S, st.strikeTargetDelta, params.r,
                                                     params.q, st.iv, newTerm),
                            oc.strike, meetsDeltaTrigger)
             newQty == ContractQty(params, st.shares, st.baseContractQty)
             newPremium == bsCallPrice(S, newStrike, params.r, params.q, st.iv, newTerm)
             premiumCash == newPremium * (newQty * 100)
             led == Reinvest(params, cash1 + premiumCash, st.shares, premiumCash, S)
             closed == [st EXCEPT !.pc = NextCheck("roll"),
                                  !.cash = cash1,
                                  !.settlements = Append(@, rollRecord),
                                  !.rollEvents = IF meetsDeltaTrigger
                                                 THEN Append(@, [rollRecord EXCEPT !.rollReason = "delta"])
                                                 ELSE @,
                                  !.openCall = None]
         IN IF CanOpen(newQty)
            THEN [closed EXCEPT !.openCall = Some([strike |-> newStrike, premium |-> newPremium,
                                                   qty |-> newQty, sellIdx |-> i,
                                                   expIdx |-> newExpIdx]),
                                !.cash = led.cash,
                                !.shares = led.shares,
                                !.opened = @ + 1]
            ELSE closed

\* the cycles (as indices b into boundaries) that start on day i
CyclesStartingAt(st, i) ==
  {b \in 1..Len(st.boundaries) : b % 2 = 1 /\ st.boundaries[b] = i}

\* step 2, the new-position check
NewPosition(st, params) ==
  LET i == st.i
      starts == CyclesStartingAt(st, i)
  IN IF st.openCall # None \/ starts = {} THEN [st EXCEPT !.pc = NextCheck("open")]
     ELSE
       LET b == CHOOSE c \in starts : \A d \in starts : c <= d
           expIdx == st.boundaries[b + 1]
           T == Term(expIdx - st.boundaries[b] + 1)
           qty == ContractQty(params, st.shares, st.baseContractQty)
           S == PriceAt(st, i)
           solved == findStrikeForTargetDelta(S, st.strikeTargetDelta, params.r,
                                              params.q, st.iv, T)
           strike == IF params.roundStrikeToInt THEN Max(CENTS, RoundStrike(solved)) ELSE solved
           premium == bsCallPrice(S, strike, params.r, params.q, st.iv, T)
           premiumCash == premium * (qty * 100)
           led == Reinvest(params, st.cash + premiumCash, st.shares, premiumCash, S)
       IN IF hasEarningsInCycle(params, st.earningsIndices, st.boundaries[b], expIdx) \/ ~CanOpen(qty)
          THEN [st EXCEPT !.pc = NextCheck("open")]
          ELSE [st EXCEPT !.pc = NextCheck("open"),
                          !.openCall = Some([strike |-> strike, premium |-> premium,
                                             qty |-> qty, sellIdx |-> i, expIdx |-> expIdx]),
                          !.cash = led.cash,
                          !.shares = led.shares,
                          !.opened = @ + 1]

\* a settlement test that never settles a contract on the day it was sold
SettleDueAfterSale(oc, i, n) ==
  (oc.expIdx = i /\ oc.sellIdx < i) \/ (i = n - 1 /\ oc.expIdx > i)

\* a settlement test that leaves a contract expiring on the last day alone
SettleDueBeforeLast(oc, i, n) ==
  (oc.expIdx = i /\ i < n - 1) \/ (i = n - 1 /\ oc.expIdx > i)

\* openCall.expIdx === i || (isLastDay && openCall.expIdx > i)
SettleDue(oc, i, n) == oc.expIdx = i \/ (i = n - 1 /\ oc.expIdx > i)

\* a delivery that is not capped by the holding
DeliverableSum(deliver, shares) == deliver + shares

\* Math.min(deliver, shares)
Deliverable(deliver, shares) == Min(deliver, shares)

\* an assignment that buys nothing back
RebuyNone(deliverable) == 0

\* const rebuy = deliverable
Rebuy(deliverable) == deliverable

\* an intrinsic value that goes below zero out of the money
IntrinsicSigned(Sexp, strike) == Sexp - strike

\* Math.max(0, Sexp - openCall.strike)
Intrinsic(Sexp, strike) == Max(0, Sexp - strike)

\* step 3, the settlement check
Settlement(st, params) ==
  IF st.openCall = None \/ ~SettleDue(Val(st.openCall), st.i, NumDays(st))
  THEN [st EXCEPT !.pc = NextCheck("settle"), !.settlementNote = None]
  ELSE
    LET oc == Val(st.openCall)
        Sexp == PriceAt(st, st.i)
        assignedLots == IF Sexp > oc.strike THEN oc.qty ELSE 0
        deliver == assignedLots * 100
        deliverable == Deliverable(deliver, st.shares)
        shares1 == st.shares - deliverable
        cash1 == st.cash + deliverable * oc.strike
        rebuy == Rebuy(deliverable)
        intrinsic == Intrinsic(Sexp, oc.strike)
        pnl == (oc.premium - intrinsic) * (oc.qty * 100)
        note == [pnl |-> pnl, strike |-> oc.strike, underlying |-> Sexp,
                 premium |-> oc.premium, qty |-> oc.qty,
                 delta |-> IF intrinsic > 0 THEN SCALE ELSE 0]
    IN IF assignedLots > 0
       THEN [st EXCEPT !.pc = NextCheck("settle"),
                       !.shares = IF rebuy > 0 THEN shares1 + rebuy ELSE shares1,
                       !.cash = IF rebuy > 0 THEN cash1 - rebuy * Sexp ELSE cash1,
                       !.deliveries = Append(@, [index |-> st.i, deliver |-> deliver,
                                                 deliverable |-> deliverable,
                                                 held |-> st.shares, after |-> shares1]),
                       !.settlementNote = Some(note),
                       !.openCall = None]
       ELSE [st EXCEPT !.pc = NextCheck("settle"), !.settlementNote = Some(note), !.openCall = None]

\* step 4, mark-to-market, and the loop's i++
MarkToMarket(st, params) ==
  LET i == st.i
      S == PriceAt(st, i)
      total == LedgerTotal(st.cash, st.shares, S)
      oc == Val(st.openCall)
      remainingTerm == Term(Max(oc.expIdx - i, 0))
      note == Val(st.settlementNote)
  IN [st EXCEPT !.pc = IF i + 1 < NumDays(st) THEN "roll" ELSE "finish",
                !.i = i + 1,
                !.cc_value = Append(@, total),
                !.callDeltaSeries =
                   Append(@, IF st.openCall # None
                             THEN Some(bsCallDelta(S, oc.strike, params.r, params.q, st.iv,
                                                   remainingTerm))
                             ELSE None),
                !.callStrikeSeries =
                   Append(@, IF st.openCall # None THEN Some(oc.strike) ELSE None),
                !.settlements =
                   IF st.settlementNote # None
                   THEN Append(@, [ index |-> i, date |-> st.dates[i + 1],
                                    totalValue |-> total, pnl |-> note.pnl,
                                    strike |-> note.strike, underlying |-> note.underlying,
                                    premium |-> note.premium, qty |-> note.qty,
                                    type |-> "expiry", delta |-> note.delta,
                                    rollReason |-> "undefined" ])
                   ELSE @,
                !.settlementNote = None]

\* ------------------------------------------------------------------------
\* runBacktest: the result (the statements after the loop)
\* ------------------------------------------------------------------------
\* the positions in settlements of the events of day idx
EventsAt(settlements, idx) ==
  {k \in 1..Len(settlements) : settlements[k].index = idx}

\* an attachment in which the first event of a day wins
AttachedSettlementFirst(settlements, idx) ==
  LET at == EventsAt(settlements, idx)
  IN IF at = {} THEN None
     ELSE LET s == settlements[CHOOSE k \in at : \A j \in at : j >= k]
          IN Some([pnl |-> s.pnl, strike |-> s.strike, underlying |-> s.underlying,
                   premium |-> s.premium, qty |-> s.qty, type |-> s.type,
                   delta |-> s.delta, rollReason |-> s.rollReason])

\* for (const s of settlements) out[s.index].settlement = {...}: the last wins
AttachedSettlement(settlements, idx) ==
  LET at == EventsAt(settlements, idx)
  IN IF at = {} THEN None
     ELSE LET s == settlements[CHOOSE k \in at : \A j \in at : j <= k]
          IN Some([pnl |-> s.pnl, strike |-> s.strike, underlying |-> s.underlying,
                   premium |-> s.premium, qty |-> s.qty, type |-> s.type,
                   delta |-> s.delta, rollReason |-> s.rollReason])

\* a curve that loses the last day
CurveOutDropLast(st) ==
  [k \in 1..(Len(st.dates) - 1) |->
     [ date |-> st.dates[k],
       BuyAndHold |-> st.bh_value[k],
       CoveredCall |-> st.cc_value[k],
       UnderlyingPrice |-> st.prices[k],
       CallStrike |-> st.callStrikeSeries[k],
       CallDelta |-> st.callDeltaSeries[k],
       settlement |-> AttachedSettlement(st.settlements, k - 1) ]]

\* dates.map((d, idx) => ({...})) with the settlements attached
CurveOut(st) ==
  [k \in 1..Len(st.dates) |->
     [ date |-> st.dates[k],
       BuyAndHold |-> st.bh_value[k],
       CoveredCall |-> st.cc_value[k],
       UnderlyingPrice |-> st.prices[k],
       CallStrike |-> st.callStrikeSeries[k],
       CallDelta |-> st.callDeltaSeries[k],
       settlement |-> AttachedSettlement(st.settlements, k - 1) ]]

\* values.at(-1) / values[0] - 1 in thousandths; NaN or Infinity is None
TotalReturn(values) ==
  IF Len(values) = 0 \/ values[1] <= 0 THEN None
  ELSE Some(RDiv(values[Len(values)] * 100, Max(1, RDiv(values[1], 10))) - 1000)

\* settlements.filter(s => s.qty > 0)
SettlementTrades(settlements) ==
  {k \in 1..Len(settlements) : settlements[k].qty > 0}

\* every settled contract counted as a win
WinningTradesAll(settlements) ==
  SettlementTrades(settlements)

\* settlementTrades.filter(s => s.pnl > 0)
WinningTrades(settlements) ==
  {k \in SettlementTrades(settlements) : settlements[k].pnl > 0}

\* ({ index: _index, ...rest }) => rest
DropIndex(events) ==
  [k \in 1..Len(events) |->
     [f \in (DOMAIN events[k]) \ {"index"} |-> events[k][f]]]

Result(st, params) ==
  LET trades == Cardinality(SettlementTrades(st.settlements))
  IN [ curve |-> CurveOut(st),
       bhReturn |-> TotalReturn(st.bh_value),
       ccReturn |-> TotalReturn(st.cc_value),
       hv |-> st.hv,
       ivUsed |-> st.iv,
       bhShares |-> params.shares,
       ccShares |-> st.shares,
       settlements |-> DropIndex(st.settlements),
       rollEvents |-> DropIndex(st.rollEvents),
       ccWinRate |-> IF trades > 0
                     THEN RDiv(Cardinality(WinningTrades(st.settlements)) * SCALE, trades)
                     ELSE 0,
       ccSettlementCount |-> trades,
       effectiveTargetDelta |-> st.strikeTargetDelta,
       rollDeltaTrigger |-> st.rollDeltaTrigger ]

\* ------------------------------------------------------------------------
\* Inputs of the model
\* ------------------------------------------------------------------------
MaxLen == 5

PriceSet == {10000, 10600}

StartDate == <<2024, 12, 30>>

\* the next trading day: weekends are skipped
NextTradingDay(z) == IF getUTCDay(z) = 5 THEN z + 3 ELSE z + 1

RECURSIVE TradingDays(_, _)
TradingDays(z, n) ==
  IF n = 0 THEN <<>> ELSE <<CivilFromDays(z)>> \o TradingDays(NextTradingDay(z), n - 1)

\* the series of daily rows from a start date with the given adjusted closes;
\* the unadjusted close of a row differs from the adjusted one
Rows(start, closes) ==
  LET dts == TradingDays(ParseDate(start), Len(closes))
  IN [k \in 1..Len(closes) |->
        [date |-> dts[k], close |-> closes[k] + 25, adjClose |-> Some(closes[k])]]

SeriesSet ==
  UNION { { Rows(StartDate, closes) : closes \in [1..n -> PriceSet] } : n \in 0..MaxLen }

\* the parameters of the repository's tests (baseParams)
BaseParams ==
  [ initialCapital |-> 0, shares |-> 100, r |-> 300, q |-> 0,
    targetDelta |-> Some(3000), freq |-> "weekly", ivOverride |-> Some(3000),
    reinvestPremium |-> TRUE, roundStrikeToInt |-> TRUE, skipEarningsWeek |-> FALSE,
    dynamicContracts |-> TRUE, enableRoll |-> TRUE, earningsDates |-> {},
    rollDeltaThreshold |-> Some(7000), rollDaysBeforeExpiry |-> Some(0),
    premiumReinvestShareThreshold |-> 1 ]

Profiles ==
  { BaseParams,
    [BaseParams EXCEPT !.shares = 199, !.dynamicContracts = FALSE, !.ivOverride = None,
                       !.roundStrikeToInt = FALSE, !.skipEarningsWeek = TRUE,
                       !.earningsDates = { <<2025, 1, 2>> }],
    [BaseParams EXCEPT !.shares = 250, !.reinvestPremium = FALSE, !.initialCapital = 50000] }

RollModes ==
  { <<FALSE, None>>, <<TRUE, None>>, <<TRUE, Some(0)>>, <<TRUE, Some(15000)>> }

\* a holding too small for one contract
SmallHolding == [BaseParams EXCEPT !.shares = 50]

ParamSet ==
  { [p EXCEPT !.freq = f, !.enableRoll = ro[1], !.rollDaysBeforeExpiry = ro[2]]
    : p \in Profiles, f \in {"weekly", "monthly"}, ro \in RollModes }
  \cup {SmallHolding}

\* ------------------------------------------------------------------------
\* The state machine of one call of runBacktest
\* ------------------------------------------------------------------------
VARIABLES ohlc, params, st, result

vars == <<ohlc, params, st, result>>

Init ==
  /\ ohlc \in SeriesSet
  /\ params \in ParamSet
  /\ st = Start(ohlc, params)
  /\ result = None

RollStep ==
  /\ st.pc = "roll"
  /\ st' = RollCheck(st, params)
  /\ UNCHANGED <<ohlc, params, result>>

OpenStep ==
  /\ st.pc = "open"
  /\ st' = NewPosition(st, params)
  /\ UNCHANGED <<ohlc, params, result>>

SettleStep ==
  /\ st.pc = "settle"
  /\ st' = Settlement(st, params)
  /\ UNCHANGED <<ohlc, params, result>>

MarkStep ==
  /\ st.pc = "mark"
  /\ st' = MarkToMarket(st, params)
  /\ UNCHANGED <<ohlc, params, result>>

Finish ==
  /\ st.pc = "finish"
  /\ st' = [st EXCEPT !.pc = "done"]
  /\ result' = Some(Result(st, params))
  /\ UNCHANGED <<ohlc, params>>

Next == RollStep \/ OpenStep \/ SettleStep \/ MarkStep \/ Finish

Spec == Init /\ [][Next]_vars

\* ------------------------------------------------------------------------
\* Properties of runBacktest
\* ------------------------------------------------------------------------
\* the last event of the settlement log
LastEvent(settlements) == settlements[Len(settlements)]

\* C1: the curve of a finished run has one point per input bar, in the
\* order of the input, and point k carries the date and the price (the
\* adjusted close) of bar k; this covers the empty and the one-bar series.
C1_CurveMatchesInput ==
  result # None =>
    LET curve == Val(result).curve
    IN /\ Len(curve) = Len(ohlc)
       /\ \A k \in 1..Len(ohlc) :
            /\ curve[k].date = ohlc[k].date
            /\ curve[k].UnderlyingPrice = RowPrice(ohlc[k])

C1_Witness ==
  /\ result # None
  /\ Len(ohlc) >= 2
  /\ Val(result).curve[2].UnderlyingPrice # Val(result).curve[1].UnderlyingPrice
  /\ Val(result).curve[2].UnderlyingPrice # ohlc[2].close

\* the days that already have a curve value and a settlement event
SettledDays(s) ==
  {d \in 0..(Len(s.cc_value) - 1) : EventsAt(s.settlements, d) # {}}

\* the event the curve point of day d carries: the last one of that day
CarriedEvent(s, d) ==
  LET at == EventsAt(s.settlements, d)
  IN s.settlements[CHOOSE k \in at : \A j \in at : j <= k]

\* the premium a roll on the current day has just credited
ReopenCredit(s) ==
  IF s.openCall # None /\ Val(s.openCall).sellIdx = s.i
  THEN Val(s.openCall).premium * (Val(s.openCall).qty * 100)
  ELSE 0

\* C2 as stated: on every day whose curve point carries a settlement, roll
\* or expiry, the totalValue of that event equals the CoveredCall value of
\* the day.
C2_EveryEventMatchesCurve ==
  \A d \in SettledDays(st) : CarriedEvent(st, d).totalValue = st.cc_value[d + 1]

\* C2: the totalValue of every expiry event equals the CoveredCall value of
\* its day, which is cash + shares * price of the ledger at that index; the
\* totalValue of a roll event is the ledger value right after the buy-back,
\* that is the value after the roll step less the premium the re-opened
\* contract has credited.
C2_ExpiryMatchesCurve ==
  /\ \A k \in 1..Len(st.settlements) :
       st.settlements[k].type = "expiry" =>
         st.settlements[k].totalValue = st.cc_value[st.settlements[k].index + 1]
  /\ (/\ st.pc \in {"roll", "finish"}
      /\ st.settlements # <<>>
      /\ LastEvent(st.settlements).type = "expiry"
      /\ LastEvent(st.settlements).index = st.i - 1)
     => LastEvent(st.settlements).totalValue =
          st.cash + st.shares * st.prices[st.i]
  /\ (/\ st.pc = "open"
      /\ st.settlements # <<>>
      /\ LastEvent(st.settlements).type = "roll"
      /\ LastEvent(st.settlements).index = st.i)
     => LastEvent(st.settlements).totalValue =
          st.cash + st.shares * st.prices[st.i + 1] - ReopenCredit(st)

C2_Witness ==
  /\ result # None
  /\ \E j, k \in 1..Len(st.settlements) :
       /\ st.settlements[j].type = "roll"
       /\ st.settlements[j].totalValue # st.cc_value[st.settlements[j].index + 1]
       /\ st.settlements[k].type = "expiry"
       /\ st.settlements[k].totalValue = st.cc_value[st.settlements[k].index + 1]
       /\ st.shares > params.shares

C4_OpenPositionWellFormed ==
  /\ Len(st.openCall) <= 1
  /\ st.openCall # None =>
       /\ Val(st.openCall).qty > 0
       /\ Val(st.openCall).expIdx >= Val(st.openCall).sellIdx
       /\ Val(st.openCall).sellIdx <= st.i
       /\ Val(st.openCall).expIdx < NumDays(st)

C4_Witness ==
  /\ st.pc = "open"
  /\ st.openCall # None
  /\ Val(st.openCall).sellIdx = st.i
  /\ Val(st.openCall).expIdx > st.i
  /\ st.settlements # <<>>
  /\ LastEvent(st.settlements).type = "roll"
  /\ LastEvent(st.settlements).index = st.i

\* C9: every position that is opened is closed by a roll or an expiry
\* event on or before the last day: positions opened and events logged
\* stay in step, no position is open once the loop has ended, and a run
\* that opened a position has logged at least one settlement.
C9_EveryPositionClosed ==
  /\ st.opened = Len(st.settlements)
                 + (IF st.openCall # None THEN 1 ELSE 0)
                 + (IF st.pc = "mark" /\ st.settlementNote # None THEN 1 ELSE 0)
  /\ st.pc \in {"finish", "done"} =>
       /\ st.openCall = None
       /\ st.opened > 0 => Len(st.settlements) > 0
       /\ \A k \in 1..Len(st.settlements) : st.settlements[k].index < NumDays(st)

C9_Witness ==
  /\ st.pc = "done"
  /\ st.opened >= 2
  /\ LastEvent(st.settlements).type = "expiry"
  /\ LastEvent(st.settlements).index = NumDays(st) - 1

\* ------------------------------------------------------------------------
\* generateCycleBoundaries on its own: the state machine of one call
\* ------------------------------------------------------------------------
MaxDates == 6

GapSet == {1, 2, 3, 28, 364}

CycleStart == <<2024, 12, 30>>

\* the dates that follow day z at the given gaps
RECURSIVE DatesFrom(_, _)
DatesFrom(z, gaps) ==
  IF gaps = <<>> THEN <<CivilFromDays(z)>>
  ELSE <<CivilFromDays(z)>> \o DatesFrom(z + Head(gaps), Tail(gaps))

\* the series of n days from CycleStart at the given gaps
DateSeries(n, gaps) ==
  IF n = 0 THEN <<>> ELSE DatesFrom(ParseDate(CycleStart), gaps)

\* every increasing date series of at most MaxDates days from CycleStart; a
\* gap of 364 days reaches the same week number and month of the next year
CyclesInit ==
  /\ \E n \in 0..MaxDates :
       \E gaps \in [1..(IF n = 0 THEN 0 ELSE n - 1) -> GapSet] :
         ohlc = [k \in 1..n |-> [date |-> DateSeries(n, gaps)[k], close |-> 10000,
                                 adjClose |-> None]]
  /\ params \in {[freq |-> f] : f \in {"weekly", "monthly"}}
  /\ st = [pc |-> "cycles"]
  /\ result = None

CyclesCall ==
  /\ st.pc = "cycles"
  /\ result' = Some(generateCycleBoundaries([k \in 1..Len(ohlc) |-> ohlc[k].date], params.freq))
  /\ st' = [pc |-> "returned"]
  /\ UNCHANGED <<ohlc, params>>

CyclesNext == CyclesCall

SpecCycles == CyclesInit /\ [][CyclesNext]_vars

\* the dates of the repository's cycle test
CycleTestDates ==
  << <<2024, 12, 30>>, <<2024, 12, 31>>, <<2025, 1, 2>>, <<2025, 1, 3>>,
     <<2025, 1, 6>>, <<2025, 1, 7>> >>

InputDates == [k \in 1..Len(ohlc) |-> ohlc[k].date]

\* C6: for the six dates of the cycle test, the weekly boundary list begins
\* 0, 1: the first weekly cycle is exactly the first two days.
C6_FirstWeekIsTwoDays ==
  (result # None /\ InputDates = CycleTestDates /\ params.freq = "weekly")
    => (Len(Val(result)) >= 2 /\ Val(result)[1] = 0 /\ Val(result)[2] = 1)

\* the period a day belongs to under a frequency
CycleKey(date, freq) ==
  IF freq = "weekly" THEN getISOWeek(ParseDate(date)) ELSE getUTCMonth(ParseDate(date))

EarningsTestDates ==
  << <<2024, 1, 2>>, <<2024, 1, 3>>, <<2024, 1, 4>>, <<2024, 1, 5>>,
     <<2024, 1, 8>>, <<2024, 1, 9>>, <<2024, 1, 10>>, <<2024, 1, 11>> >>

EarningsTestCloses ==
  { <<10000, 10100, 10200, 10300, 10400, 10500, 10600, 10700>>,
    <<10000, 10000, 10000, 10000, 10000, 10000, 10000, 10000>>,
    <<10700, 10600, 10500, 10400, 10300, 10200, 10100, 10000>> }

\* the end index of the first ISO week of the input
FirstWeekEnd == generateCycleBoundaries(InputDates, "weekly")[2]

EarningsParamSet ==
  { [BaseParams EXCEPT !.skipEarningsWeek = skip, !.earningsDates = {EarningsTestDates[e]},
                       !.freq = f, !.dynamicContracts = dyn,
                       !.enableRoll = ro[1], !.rollDaysBeforeExpiry = ro[2]]
    : skip \in BOOLEAN, e \in 1..4, f \in {"weekly", "monthly"},
      dyn \in {TRUE}, ro \in RollModes }

EarningsInit ==
  /\ \E closes \in EarningsTestCloses :
       ohlc = [k \in 1..Len(closes) |->
                 [date |-> EarningsTestDates[k], close |-> closes[k],
                  adjClose |-> Some(closes[k])]]
  /\ params \in EarningsParamSet
  /\ st = Start(ohlc, params)
  /\ result = None

SpecEarnings == EarningsInit /\ [][Next]_vars

\* C5: with skipEarningsWeek an earnings date in the first week keeps the
\* engine out of that week: no position is open on any of its days and every
\* curve point of the week has no CallStrike; without skipEarningsWeek, on
\* the same data, some curve point of that week has a CallStrike.
C5_EarningsWeekSkipped ==
  /\ (params.skipEarningsWeek /\ st.pc # "done" /\ st.i <= FirstWeekEnd)
       => st.openCall = None
  /\ params.skipEarningsWeek =>
       \A k \in 1..Len(st.callStrikeSeries) :
         k - 1 <= FirstWeekEnd => st.callStrikeSeries[k] = None
  /\ (~params.skipEarningsWeek /\ result # None) =>
       \E k \in 1..(FirstWeekEnd + 1) : Val(result).curve[k].CallStrike # None

C5_Witness ==
  /\ result # None
  /\ params.skipEarningsWeek
  /\ params.freq = "weekly"
  /\ st.earningsIndices = {2}
  /\ \A k \in 1..(FirstWeekEnd + 1) : Val(result).curve[k].CallStrike = None
  /\ \E k \in (FirstWeekEnd + 2)..Len(ohlc) : Val(result).curve[k].CallStrike # None

\* ------------------------------------------------------------------------
\* Runs with the configuration in and out of range
\* ------------------------------------------------------------------------
\* a delta given as absent (or not a finite number), below, inside and above
\* the range [0.05, 0.95]
DeltaInputs ==
  {None, Some(-2000), Some(499), Some(500), Some(3000), Some(9501), Some(20000)}

\* rollDaysBeforeExpiry absent, negative, fractional, inside and above [0, 4]
OffsetInputs ==
  {None, Some(-15000), Some(-1), Some(9999), Some(25000), Some(40000), Some(70000)}

ClampSeries == { Rows(StartDate, <<10000, 10600, 10600, 10000, 10600>>) }

ClampParamSet ==
  { [BaseParams EXCEPT !.targetDelta = td, !.rollDeltaThreshold = rt,
                       !.rollDaysBeforeExpiry = off]
    : td \in DeltaInputs, rt \in DeltaInputs, off \in OffsetInputs }

ClampInit ==
  /\ ohlc \in ClampSeries
  /\ params \in ClampParamSet
  /\ st = Start(ohlc, params)
  /\ result = None

SpecClamp == ClampInit /\ [][Next]_vars

\* v is x brought into [lo, hi]
IsClamped(x, lo, hi, v) ==
  \/ x < lo /\ v = lo
  \/ x > hi /\ v = hi
  \/ lo <= x /\ x <= hi /\ v = x

\* v is the whole number of days floor(x) brought into [0, 4]
IsClampedFloor(x, v) ==
  /\ v \in 0..4
  /\ \/ x < 0 /\ v = 0
     \/ x >= 5 * SCALE /\ v = 4
     \/ v * SCALE <= x /\ x < (v + 1) * SCALE

\* C10: out-of-range configuration is clamped and the run completes: the
\* effective target delta is targetDelta brought into [0.05, 0.95] (0.30 when
\* absent), the roll delta trigger is rollDeltaThreshold brought into
\* [0.05, 0.95] (0.70 when absent), and the scheduled roll offset the engine
\* uses is floor(rollDaysBeforeExpiry) brought into [0, 4].
C10_ConfigurationClamped ==
  /\ IsClamped(IF params.targetDelta = None THEN 3000 ELSE Val(params.targetDelta),
               500, 9500, st.strikeTargetDelta)
  /\ IsClamped(IF params.rollDeltaThreshold = None THEN 7000
               ELSE Val(params.rollDeltaThreshold),
               500, 9500, st.rollDeltaTrigger)
  /\ params.rollDaysBeforeExpiry # None =>
       /\ st.scheduledRollOffset # None
       /\ IsClampedFloor(Val(params.rollDaysBeforeExpiry), Val(st.scheduledRollOffset))
  /\ result # None =>
       /\ Val(result).effectiveTargetDelta = st.strikeTargetDelta
       /\ Val(result).rollDeltaTrigger = st.rollDeltaTrigger
       /\ Len(Val(result).curve) = Len(ohlc)

C10_Witness ==
  /\ result # None
  /\ params.targetDelta = Some(20000)
  /\ Val(result).effectiveTargetDelta = 9500
  /\ params.rollDeltaThreshold = Some(-2000)
  /\ Val(result).rollDeltaTrigger = 500
  /\ params.rollDaysBeforeExpiry = Some(70000)
  /\ st.scheduledRollOffset = Some(4)
  /\ \E k \in 1..Len(st.settlements) : st.settlements[k].rollReason = "scheduled"

\* ------------------------------------------------------------------------
\* The reinvestment-threshold scenario of the repository's tests: the same
\* flat series run with premiumReinvestShareThreshold 1 and 5, side by side
\* ------------------------------------------------------------------------
FlatDays == 80

FlatStart == <<2024, 1, 2>>

\* FlatDays consecutive calendar days at one price
FlatRows(price) ==
  LET dts == DatesFrom(ParseDate(FlatStart), [k \in 1..(FlatDays - 1) |-> 1])
  IN [k \in 1..FlatDays |-> [date |-> dts[k], close |-> price, adjClose |-> Some(price)]]

FlatParamSet ==
  { [BaseParams EXCEPT !.enableRoll = FALSE, !.premiumReinvestShareThreshold = 1,
                       !.shares = sh, !.freq = f, !.dynamicContracts = dyn]
    : sh \in {100, 300}, f \in {"weekly", "monthly"}, dyn \in {TRUE} }

\* the parameters of the second run
Batched(p) == [p EXCEPT !.premiumReinvestShareThreshold = 5]

\* one step of the loop of a run
Step(s, p) ==
  CASE s.pc = "roll" -> RollCheck(s, p)
    [] s.pc = "open" -> NewPosition(s, p)
    [] s.pc = "settle" -> Settlement(s, p)
    [] s.pc = "mark" -> MarkToMarket(s, p)
    [] OTHER -> s

\* curve.findIndex(point => shares of the point > initialShares), observed
\* when the day's curve point is written
FirstOver(first, s, p) ==
  IF first = None /\ s.pc = "mark" /\ s.shares > p.shares THEN Some(s.i) ELSE first

TwinInit ==
  /\ ohlc \in {FlatRows(price) : price \in {10000}}
  /\ params \in FlatParamSet
  /\ st = [pc |-> "twin",
           immediate |-> Start(ohlc, params),
           batched |-> Start(ohlc, Batched(params)),
           firstImmediate |-> None,
           firstBatched |-> None]
  /\ result = None

TwinStep ==
  /\ st.pc = "twin"
  /\ st.immediate.pc # "finish"
  /\ st' = [st EXCEPT !.immediate = Step(@, params),
                      !.batched = Step(@, Batched(params)),
                      !.firstImmediate = FirstOver(@, st.immediate, params),
                      !.firstBatched = FirstOver(@, st.batched, Batched(params))]
  /\ UNCHANGED <<ohlc, params, result>>

TwinFinish ==
  /\ st.pc = "twin"
  /\ st.immediate.pc = "finish"
  /\ st' = [st EXCEPT !.pc = "done"]
  /\ result' = Some([firstImmediate |-> st.firstImmediate,
                     firstBatched |-> st.firstBatched,
                     immediate |-> Result(st.immediate, params),
                     batched |-> Result(st.batched, Batched(params))])
  /\ UNCHANGED <<ohlc, params>>

TwinNext == TwinStep \/ TwinFinish

SpecReinvest == TwinInit /\ [][TwinNext]_vars

\* C8: on the same flat series, with rolling off and reinvestment on, the
\* first day on which the share count exceeds the starting count exists in
\* the run with threshold 1 and is strictly smaller there than in the run
\* with threshold 5.
C8_ThresholdOneBuysFirst ==
  (result # None /\ params.shares = 100 /\ params.freq = "weekly") =>
    /\ Val(result).firstImmediate # None
    /\ Val(result).firstBatched # None =>
         Val(Val(result).firstImmediate) < Val(Val(result).firstBatched)

\* ------------------------------------------------------------------------
\* Further properties of runBacktest
\* ------------------------------------------------------------------------
\* C11: runBacktest completes on the shortest series: every step of a run
\* over 0 or 1 bars is defined and leads to the result; the empty series
\* gives an empty curve and no settlements, and a one-bar series gives a
\* one-point curve, a position opened on that day being settled that day.
C11_ShortSeriesComplete ==
  Len(ohlc) <= 1 =>
    /\ st.pc \in {"roll", "open", "settle", "mark", "finish", "done"}
    /\ st.pc = "roll" => RollCheck(st, params).pc = "open"
    /\ st.pc = "open" => NewPosition(st, params).pc = "settle"
    /\ st.pc = "settle" => Settlement(st, params).pc = "mark"
    /\ st.pc = "mark" => MarkToMarket(st, params).pc = "finish"
    /\ st.pc = "finish" => Len(Result(st, params).curve) = Len(ohlc)
    /\ st.pc = "done" => result # None
    /\ (result # None /\ Len(ohlc) = 0) =>
         /\ Val(result).curve = <<>>
         /\ Val(result).settlements = <<>>
         /\ Val(result).rollEvents = <<>>
         /\ st.opened = 0
    /\ (result # None /\ Len(ohlc) = 1) =>
         /\ Len(Val(result).curve) = 1
         /\ st.openCall = None
         /\ Len(Val(result).settlements) = st.opened
         /\ \A k \in 1..Len(st.settlements) :
              st.settlements[k].index = 0 /\ st.settlements[k].type = "expiry"

C11_Witness ==
  /\ result # None
  /\ Len(ohlc) = 1
  /\ st.opened = 1
  /\ Len(Val(result).settlements) = 1
  /\ Val(result).curve[1].settlement # None
  /\ Val(result).curve[1].CallStrike = None

\* ------------------------------------------------------------------------
\* Two runs on the same series that differ in the earnings dates only
\* ------------------------------------------------------------------------
PairLen == 4

\* two different sets of earnings dates among the days of the series
EarningsPairs ==
  { << {}, {<<2024, 12, 31>>} >>,
    << {<<2024, 12, 30>>}, {<<2025, 1, 1>>, <<2025, 1, 2>>} >>,
    << {<<2024, 12, 31>>, <<2025, 1, 3>>}, {} >> }

PairParamSet ==
  { [BaseParams EXCEPT !.skipEarningsWeek = skip, !.freq = f,
                       !.enableRoll = ro[1], !.rollDaysBeforeExpiry = ro[2]]
    : skip \in BOOLEAN, f \in {"weekly", "monthly"},
      ro \in { <<FALSE, None>>, <<TRUE, Some(0)>> } }

PairInit ==
  /\ \E closes \in [1..PairLen -> PriceSet] : ohlc = Rows(StartDate, closes)
  /\ \E p \in PairParamSet, e \in EarningsPairs :
       /\ params = [p EXCEPT !.earningsDates = e[1]]
       /\ st = [pc |-> "pair",
                otherParams |-> [p EXCEPT !.earningsDates = e[2]],
                left |-> Start(ohlc, [p EXCEPT !.earningsDates = e[1]]),
                right |-> Start(ohlc, [p EXCEPT !.earningsDates = e[2]])]
  /\ result = None

PairStep ==
  /\ st.pc = "pair"
  /\ st.left.pc # "finish"
  /\ st' = [st EXCEPT !.left = Step(@, params), !.right = Step(@, st.otherParams)]
  /\ UNCHANGED <<ohlc, params, result>>

PairFinish ==
  /\ st.pc = "pair"
  /\ st.left.pc = "finish"
  /\ st' = [st EXCEPT !.pc = "done"]
  /\ result' = Some([left |-> Result(st.left, params),
                     right |-> Result(st.right, st.otherParams)])
  /\ UNCHANGED <<ohlc, params>>

PairNext == PairStep \/ PairFinish

SpecPair == PairInit /\ [][PairNext]_vars

\* C12: with skipEarningsWeek false the run does not depend on the earnings
\* dates: two runs that differ in earningsDates only have the same curve,
\* settlements, roll events and ledger, at every step and in the result.
C12_EarningsDatesIgnored ==
  ~params.skipEarningsWeek =>
    /\ [st.left EXCEPT !.earningsIndices = {}] = [st.right EXCEPT !.earningsIndices = {}]
    /\ result # None => Val(result).left = Val(result).right

C12_Witness ==
  /\ result # None
  /\ ~params.skipEarningsWeek
  /\ st.left.earningsIndices # st.right.earningsIndices
  /\ st.left.earningsIndices # {}
  /\ Val(result).left.settlements # <<>>
  /\ Val(result).left.curve = Val(result).right.curve
  /\ Val(result).left.ccShares = Val(result).right.ccShares

\* C13: the buy-and-hold value of curve point i is initialCapital +
\* shares * price[i] with the starting share count, whatever the strategy
\* parameters and the covered-call ledger are; bhShares is the starting
\* share count.
C13_BuyAndHoldIndependent ==
  result # None =>
    /\ Val(result).bhShares = params.shares
    /\ \A k \in 1..Len(ohlc) :
         Val(result).curve[k].BuyAndHold =
           params.initialCapital + params.shares * RowPrice(ohlc[k])

C13_Witness ==
  /\ result # None
  /\ params.initialCapital > 0
  /\ Len(ohlc) >= 2
  /\ Val(result).settlements # <<>>
  /\ \E k \in 1..Len(ohlc) : Val(result).curve[k].CoveredCall # Val(result).curve[k].BuyAndHold

\* C14: ccSettlementCount is the number of settlement events with qty > 0;
\* ccWinRate is the share of those with pnl > 0 (to the nearest 1/SCALE), 0
\* when there is none, and lies between 0 and 1.
C14_WinRate ==
  result # None =>
    LET r == Val(result)
        trades == {k \in 1..Len(r.settlements) : r.settlements[k].qty > 0}
        wins == {k \in trades : r.settlements[k].pnl > 0}
        count == Cardinality(trades)
    IN /\ r.ccSettlementCount = count
       /\ count = 0 => r.ccWinRate = 0
       /\ count > 0 =>
            /\ 2 * (r.ccWinRate * count - Cardinality(wins) * SCALE) <= count
            /\ 2 * (Cardinality(wins) * SCALE - r.ccWinRate * count) <= count
       /\ r.ccWinRate >= 0
       /\ r.ccWinRate <= SCALE

C14_Witness ==
  /\ result # None
  /\ Val(result).ccSettlementCount >= 3
  /\ Val(result).ccWinRate > 0
  /\ Val(result).ccWinRate < SCALE
  /\ \E k \in 1..Len(Val(result).settlements) : Val(result).settlements[k].pnl <= 0
  /\ \E k \in 1..Len(Val(result).settlements) : Val(result).settlements[k].pnl > 0

\* ------------------------------------------------------------------------
\* Runs that exercise the roll logic: one trading week in which the price
\* moves every day, with target deltas and triggers on both sides of the
\* clamp, every kind of roll schedule, and both strike roundings
\* ------------------------------------------------------------------------
RollLen == 5

RollParamSet ==
  { [BaseParams EXCEPT !.targetDelta = Some(td), !.rollDeltaThreshold = Some(tr),
                       !.roundStrikeToInt = rnd, !.freq = f,
                       !.rollDaysBeforeExpiry = off]
    : td \in {3000, 20000}, tr \in {7000, 100}, rnd \in BOOLEAN,
      f \in {"weekly", "monthly"}, off \in {None, Some(0), Some(30000)} }
  \cup { [BaseParams EXCEPT !.enableRoll = FALSE, !.freq = f,
                            !.rollDaysBeforeExpiry = Some(30000)]
         : f \in {"weekly", "monthly"} }

RollInit ==
  /\ \E closes \in [1..RollLen -> PriceSet] : ohlc = Rows(StartDate, closes)
  /\ params \in RollParamSet
  /\ st = Start(ohlc, params)
  /\ result = None

SpecRoll == RollInit /\ [][Next]_vars

\* the roll events of a settlement log whose label is 'delta'
DeltaRolls(settlements) ==
  SelectSeq(settlements, LAMBDA e : e.type = "roll" /\ e.rollReason = "delta")

\* the two triggers of the roll check, from the position open at the head
\* of the day
DeltaFired(s, p) ==
  LET oc == Val(s.openCall)
      dte == oc.expIdx - s.i
  IN /\ dte > 2
     /\ bsCallDelta(PriceAt(s, s.i), oc.strike, p.r, p.q, s.iv, Term(dte)) >= s.rollDeltaTrigger

ScheduleFired(s) ==
  /\ s.scheduledRollOffset # None
  /\ Val(s.openCall).expIdx - s.i <= Val(s.scheduledRollOffset)

\* the step is a roll check that closed the open position
Rolled ==
  /\ st.pc = "roll"
  /\ Len(st'.settlements) = Len(st.settlements) + 1

\* C15: rollEvents holds exactly the roll settlements for which the delta
\* trigger fired, in order, and each of them is also in settlements with
\* type 'roll'; a roll on which the delta trigger fired is labelled 'delta'
\* even when the scheduled trigger fired too, and a roll on the schedule
\* alone is labelled 'scheduled' and is not in rollEvents.
C15_RollEventsAreDeltaRolls ==
  [][st.pc = "roll" =>
       /\ st'.rollEvents = DeltaRolls(st'.settlements)
       /\ IF Rolled
          THEN LET ev == LastEvent(st'.settlements)
               IN /\ ev.type = "roll"
                  /\ ev.index = st.i
                  /\ IF DeltaFired(st, params)
                     THEN /\ ev.rollReason = "delta"
                          /\ st'.rollEvents = Append(st.rollEvents, ev)
                     ELSE /\ ScheduleFired(st)
                          /\ ev.rollReason = "scheduled"
                          /\ st'.rollEvents = st.rollEvents
          ELSE /\ st'.rollEvents = st.rollEvents
               /\ st'.settlements = st.settlements]_vars

\* the first contract of the week is rolled with both triggers fired, and
\* its successor is rolled on the schedule alone
C15_Witness ==
  /\ Len(st.settlements) >= 2
  /\ st.scheduledRollOffset # None
  /\ st.settlements[1].type = "roll"
  /\ st.settlements[1].rollReason = "delta"
  /\ st.boundaries[2] - st.settlements[1].index > 2
  /\ st.boundaries[2] - st.settlements[1].index <= Val(st.scheduledRollOffset)
  /\ st.settlements[2].type = "roll"
  /\ st.settlements[2].rollReason = "scheduled"
  /\ Len(st.rollEvents) = 1
  /\ st.rollEvents[1] = st.settlements[1]

\* The ledger events of one step, each as the amount it adds to the cash
\* the premium received for a contract sold in this step
PremiumReceipt ==
  IF st'.opened > st.opened
  THEN Val(st'.openCall).premium * (Val(st'.openCall).qty * 100)
  ELSE 0

\* the shares bought in this step
SharesBought == st'.shares - st.shares

\* the assignment of the contract settled in this step: the shares delivered
\* at the strike and bought back at the price
AssignmentCash ==
  IF st.pc = "settle" /\ st.openCall # None /\ st'.openCall = None
     /\ PriceAt(st, st.i) > Val(st.openCall).strike
  THEN Min(Val(st.openCall).qty * 100, st.shares)
         * (Val(st.openCall).strike - PriceAt(st, st.i))
  ELSE 0

\* the price paid to buy back the contract closed by a roll in this step
BuyBack ==
  IF Rolled
  THEN bsCallPrice(PriceAt(st, st.i), Val(st.openCall).strike, params.r, params.q, st.iv,
                   Term(Val(st.openCall).expIdx - st.i))
         * (Val(st.openCall).qty * 100)
  ELSE 0

\* shares are bought only with a premium just received, when reinvestment is on
ReinvestmentOnly ==
  /\ SharesBought >= 0
  /\ SharesBought > 0 => (st'.opened > st.opened /\ params.reinvestPremium)
  /\ SharesBought * PriceAt(st, st.i) <= PremiumReceipt

\* C16 as stated: in every step the ledger changes only by a premium
\* receipt on a sale, an assignment delivery and rebuy at expiry, and a
\* reinvestment purchase.
C16_ThreeLedgerEvents ==
  [][IF st.pc \in {"roll", "open", "settle", "mark"}
     THEN
       /\ ReinvestmentOnly
       /\ st'.cash - st.cash =
            PremiumReceipt + AssignmentCash - SharesBought * PriceAt(st, st.i)
     ELSE st'.cash = st.cash /\ st'.shares = st.shares]_vars

\* C16, amended: in every step the ledger changes only by a premium receipt
\* on a sale, the buy-back of the contract closed by a roll, an assignment
\* delivery and rebuy at expiry, and a reinvestment purchase.
C16_FourLedgerEvents ==
  [][IF st.pc \in {"roll", "open", "settle", "mark"}
     THEN
       /\ ReinvestmentOnly
       /\ st'.cash - st.cash =
            PremiumReceipt + AssignmentCash - SharesBought * PriceAt(st, st.i) - BuyBack
     ELSE st'.cash = st.cash /\ st'.shares = st.shares]_vars

\* after a roll that bought the old contract back at a price, sold a new
\* one and reinvested its premium in shares
C16_Witness ==
  /\ st.pc = "open"
  /\ st.settlements # <<>>
  /\ LastEvent(st.settlements).type = "roll"
  /\ LastEvent(st.settlements).index = st.i
  /\ LastEvent(st.settlements).premium * LastEvent(st.settlements).qty * 100
       # LastEvent(st.settlements).pnl
  /\ st.openCall # None
  /\ Val(st.openCall).sellIdx = st.i
  /\ st.shares > params.shares
  /\ st.cash # params.initialCapital

\* C17: every day runs the roll check, the new-position check, the
\* settlement check and mark-to-market in this order.  A position opened or
\* re-opened on day i that is due on day i is settled on day i; once the
\* settlement check has closed a position nothing is sold or rolled before
\* the next day; and the curve value of the day is the ledger value after
\* the three checks.
C17_FixedOrder ==
  [][/\ st.pc = "roll" => st'.pc = "open" /\ st'.i = st.i /\ st'.cc_value = st.cc_value
     /\ st.pc = "open" => st'.pc = "settle" /\ st'.i = st.i /\ st'.cc_value = st.cc_value
     /\ st.pc = "settle" =>
          /\ st'.pc = "mark" /\ st'.i = st.i /\ st'.cc_value = st.cc_value
          /\ st'.opened = st.opened
          /\ st'.settlements = st.settlements
          /\ st'.settlementNote # None => (st.openCall # None /\ st'.openCall = None)
          /\ (st.openCall # None /\ Val(st.openCall).expIdx = st.i) =>
               (st'.settlementNote # None /\ st'.openCall = None)
     /\ st.pc = "mark" =>
          /\ st'.pc \in {"roll", "finish"} /\ st'.i = st.i + 1
          /\ st.openCall # None => Val(st.openCall).expIdx > st.i
          /\ st'.openCall = st.openCall
          /\ st'.opened = st.opened
          /\ st'.cash = st.cash /\ st'.shares = st.shares
          /\ st'.cc_value = Append(st.cc_value, st.cash + st.shares * PriceAt(st, st.i))
          /\ st'.settlements # st.settlements =>
               /\ st.settlementNote # None
               /\ st'.settlements = Append(st.settlements, LastEvent(st'.settlements))
               /\ LastEvent(st'.settlements).type = "expiry"
               /\ LastEvent(st'.settlements).index = st.i]_vars

\* a day on which the roll check closed and re-opened a position, the
\* settlement check settled the new one, and the ledger moved in both
C17_Witness ==
  /\ st.pc = "mark"
  /\ st.settlements # <<>>
  /\ LastEvent(st.settlements).type = "roll"
  /\ LastEvent(st.settlements).index = st.i
  /\ st.opened >= 2
  /\ st.settlementNote # None
  /\ st.openCall = None
  /\ st.deliveries # <<>>
  /\ LastEvent(st.deliveries).index = st.i

\* C18: with rolling enabled, a position open at the head of day i with
\* expIdx - i >= 0 is rolled on day i exactly when (more than 2 days are left
\* to expiry and its delta is at least rollDeltaTrigger) or (a scheduled
\* offset is configured and at most that many days are left).  With rolling
\* disabled there is no roll event and every settlement is of type 'expiry'.
C18_RollExactlyOnTrigger ==
  [][/\ st.pc = "roll" =>
          IF params.enableRoll /\ st.openCall # None /\ Val(st.openCall).expIdx - st.i >= 0
          THEN Rolled <=> (ScheduleFired(st) \/ DeltaFired(st, params))
          ELSE ~Rolled
     /\ ~params.enableRoll =>
          /\ st'.rollEvents = <<>>
          /\ \A k \in 1..Len(st'.settlements) : st'.settlements[k].type = "expiry"]_vars

\* day 2 of a week without a schedule-fired roll: the contract re-opened by
\* the delta roll of day 1 has 2 days left and a delta above the trigger,
\* and the roll check has left it open
C18_Witness ==
  /\ st.pc = "open"
  /\ st.i = 2
  /\ params.enableRoll
  /\ Len(st.settlements) = 1
  /\ st.settlements[1].type = "roll"
  /\ st.settlements[1].index = 1
  /\ st.openCall # None
  /\ Val(st.openCall).sellIdx = 1
  /\ Val(st.openCall).expIdx = 4
  /\ bsCallDelta(PriceAt(st, 2), Val(st.openCall).strike, params.r, params.q, st.iv, Term(2))
       >= st.rollDeltaTrigger

\* ------------------------------------------------------------------------
\* Runs long enough for a roll to have a later cycle to move to: eight
\* trading days from 2024-12-30, which make the weekly cycles 0..4, 5..7 and
\* the monthly cycles 0..1, 2..7
\* ------------------------------------------------------------------------
ExpiryLen == 8

ExpiryParamSet ==
  { [BaseParams EXCEPT !.freq = f, !.rollDaysBeforeExpiry = off]
    : f \in {"weekly", "monthly"}, off \in {Some(0), Some(30000)} }
  \cup { [BaseParams EXCEPT !.rollDaysBeforeExpiry = None],
         [BaseParams EXCEPT !.freq = "monthly", !.skipEarningsWeek = TRUE,
                            !.earningsDates = { <<2025, 1, 2>> }] }

ExpiryInit ==
  /\ \E closes \in [1..ExpiryLen -> PriceSet] : ohlc = Rows(StartDate, closes)
  /\ params \in ExpiryParamSet
  /\ st = Start(ohlc, params)
  /\ result = None

SpecExpiry == ExpiryInit /\ [][Next]_vars

\* the cycle (as an index into boundaries) that holds day idx
CycleOf(boundaries, idx) ==
  CHOOSE b \in 1..Len(boundaries) :
    b % 2 = 1 /\ boundaries[b] <= idx /\ idx <= boundaries[b + 1]

\* the eligible cycles after cycle b
LaterEligibleCycles(s, p, b) ==
  {c \in (b + 1)..Len(s.boundaries) :
     /\ c % 2 = 1
     /\ ~hasEarningsInCycle(p, s.earningsIndices, s.boundaries[c], s.boundaries[c + 1])}

\* the expiry index the rule gives the contract re-opened by a roll of the
\* open position on day s.i; the day-length of the rolled contract is read
\* either as expIdx - sellIdx or as the number of days from sale to expiry
\* inclusive
NextCycleExpiries(s, p) ==
  LET oc == Val(s.openCall)
      later == LaterEligibleCycles(s, p, CycleOf(s.boundaries, oc.expIdx))
      length == oc.expIdx - oc.sellIdx
  IN IF later # {}
     THEN {s.boundaries[(CHOOSE c \in later : \A d \in later : c <= d) + 1]}
     ELSE {Min(NumDays(s) - 1, s.i + length), Min(NumDays(s) - 1, s.i + length + 1)}

\* C19: the contract re-opened by a roll on day i expires at the end of the
\* next eligible cycle after the cycle of the rolled contract; only when
\* there is no such cycle, at i plus the day-length of the rolled contract,
\* capped at the last index.
C19_NextCycleExpiry ==
  [][(Rolled /\ st'.openCall # None) =>
       Val(st'.openCall).expIdx \in NextCycleExpiries(st, params)]_vars

\* the strike solved for the contract re-opened in this step, rounded when
\* rounding is on
SolvedRollStrike ==
  LET solved == findStrikeForTargetDelta(PriceAt(st, st.i), st.strikeTargetDelta, params.r,
                                         params.q, st.iv,
                                         Term(Val(st'.openCall).expIdx - st.i))
  IN IF params.roundStrikeToInt THEN RoundStrike(solved) ELSE solved

\* C20: the contract re-opened by a delta-triggered roll has a strike above
\* the strike of the rolled contract: the solved (rounded) strike if that is
\* above it, else the old strike + 1 when rounding to integers and the old
\* strike + max(0.5, 1% of the solved strike) when not.  A roll fired by the
\* schedule alone takes the solved (rounded) strike as it is.
C20_DeltaRollRaisesStrike ==
  [][(Rolled /\ st'.openCall # None) =>
       LET old == Val(st.openCall).strike
           new == Val(st'.openCall).strike
       IN IF DeltaFired(st, params)
          THEN /\ new > old
               /\ new = IF SolvedRollStrike > old THEN SolvedRollStrike
                        ELSE IF params.roundStrikeToInt THEN old + CENTS
                        ELSE old + Max(CENTS \div 2, RDiv(SolvedRollStrike, 100))
          ELSE new = SolvedRollStrike]_vars

\* after a delta-triggered roll whose solved strike was not above the rolled
\* strike: the new strike is the rolled strike plus one
C20_Witness ==
  /\ st.pc = "open"
  /\ params.roundStrikeToInt
  /\ st.rollEvents # <<>>
  /\ LastEvent(st.rollEvents).index = st.i
  /\ st.openCall # None
  /\ Val(st.openCall).sellIdx = st.i
  /\ Val(st.openCall).strike = LastEvent(st.rollEvents).strike + CENTS
  /\ RoundStrike(findStrikeForTargetDelta(PriceAt(st, st.i), st.strikeTargetDelta, params.r,
                                          params.q, st.iv,
                                          Term(Val(st.openCall).expIdx - st.i)))
       <= LastEvent(st.rollEvents).strike

\* the contract count of the sizing rule for the ledger at the head of the step
SizedQty ==
  IF params.dynamicContracts THEN st.shares \div 100 ELSE params.shares \div 100

\* C21: every contract opened, by a sale or by a roll, has qty = floor(current
\* shares / 100) under dynamic sizing and floor(starting shares / 100) under
\* fixed sizing.  When that count is 0 nothing is opened and no premium is
\* credited; a roll then still closes the old contract and emits its event.
C21_ContractCount ==
  [][st.pc \in {"roll", "open"} =>
       /\ st'.opened > st.opened =>
            /\ SizedQty > 0
            /\ st'.openCall # None
            /\ Val(st'.openCall).qty = SizedQty
       /\ SizedQty = 0 =>
            /\ st'.opened = st.opened
            /\ st'.openCall = None
            /\ st'.shares = st.shares
            /\ st'.cash = st.cash - BuyBack
            /\ (st.openCall # None /\ st'.openCall = None) => Rolled]_vars

\* a finished run over at least one cycle with a holding below one lot:
\* nothing was sold and the cash never moved
C21_Witness ==
  /\ result # None
  /\ Len(ohlc) >= 2
  /\ st.boundaries # <<>>
  /\ params.shares \div 100 = 0
  /\ st.opened = 0
  /\ st.cash = params.initialCapital
  /\ Val(result).settlements = <<>>

\* the entry offset of the sale plan: the scheduled roll offset, 0 when none
\* is configured
EntryOffset(s) ==
  IF s.scheduledRollOffset # None THEN Val(s.scheduledRollOffset) ELSE 0

\* the cycles b (indices into boundaries) that make day i a planned sale
\* day: i is the end of cycle b minus the entry offset, clamped into the
\* cycle, and the following cycle is eligible and ends after i
PlannedSales(s, p, i) ==
  {b \in 1..Len(s.boundaries) :
     /\ b % 2 = 1
     /\ b + 3 <= Len(s.boundaries)
     /\ i = Max(s.boundaries[b], Min(s.boundaries[b + 1], s.boundaries[b + 1] - EntryOffset(s)))
     /\ ~hasEarningsInCycle(p, s.earningsIndices, s.boundaries[b + 2], s.boundaries[b + 3])
     /\ s.boundaries[b + 3] > i}

\* C22: the new-position check opens a position on day i only if none is
\* open after the roll check and i is a planned sale day (the end of a cycle
\* minus the entry offset, clamped into the cycle) whose target, the
\* following cycle, is eligible and ends after i; the position expires at
\* the end of the target cycle and is priced for the term
\* max((plannedExpiry - i)/252, 1/252).
C22_PlannedSaleDay ==
  [][(st.pc = "open" /\ st'.opened > st.opened) =>
       /\ st.openCall = None
       /\ \E b \in PlannedSales(st, params, st.i) :
            /\ Val(st'.openCall).expIdx = st.boundaries[b + 3]
            /\ Val(st'.openCall).premium =
                 bsCallPrice(PriceAt(st, st.i), Val(st'.openCall).strike, params.r, params.q,
                             st.iv, Term(Val(st'.openCall).expIdx - st.i))]_vars

\* some day of the cycle b is one of the configured earnings dates
HasEarningsDate(b) ==
  \E k \in st.boundaries[b]..st.boundaries[b + 1] : ohlc[k + 1].date \in params.earningsDates

\* the cycle that starts on the day of the step, when the new-position check
\* is free to sell for it: nothing is open and the holding covers a contract
SaleCandidates ==
  IF st.pc = "open" /\ st.openCall = None /\ SizedQty > 0
  THEN CyclesStartingAt(st, st.i)
  ELSE {}

\* C23 as stated: with earnings avoidance a cycle is skipped for new sales
\* exactly when one of its days is an earnings date, except cycle 0, which is
\* always sold for.
C23_CycleZeroAlwaysEligible ==
  [][\A b \in SaleCandidates :
       (st'.opened = st.opened) <=>
         (params.skipEarningsWeek /\ HasEarningsDate(b) /\ b # 1)]_vars

\* C23, amended: with earnings avoidance a cycle is skipped for new sales
\* exactly when one of its days is an earnings date, cycle 0 included;
\* without earnings avoidance no cycle is skipped.
C23_EarningsCycleSkipped ==
  [][\A b \in SaleCandidates :
       (st'.opened = st.opened) <=> (params.skipEarningsWeek /\ HasEarningsDate(b))]_vars

\* the new-position check of day 0 has passed over cycle 0, which holds an
\* earnings date, with a holding that covers a contract
C23_Witness ==
  /\ st.pc = "settle"
  /\ st.i = 0
  /\ params.skipEarningsWeek
  /\ params.shares >= 100
  /\ st.boundaries # <<>>
  /\ \E k \in st.boundaries[1]..st.boundaries[2] : ohlc[k + 1].date \in params.earningsDates
  /\ st.openCall = None
  /\ st.opened = 0

\* C24: an expiry settlement leaves the share count as it is.  Above the
\* strike, min(qty*100, shares) shares are delivered at the strike and bought
\* back at the price, so the cash changes by deliverable * (strike - S_exp);
\* at or below the strike the ledger does not change.  Either way the position
\* is cleared and the pnl of the event is
\* (premium - max(0, S_exp - strike)) * qty * 100.
C24_ExpirySettlement ==
  [][/\ (st.pc = "settle" /\ st'.settlementNote # None) =>
          LET oc == Val(st.openCall)
              Sexp == PriceAt(st, st.i)
              note == Val(st'.settlementNote)
          IN /\ st'.openCall = None
             /\ st'.shares = st.shares
             /\ st'.cash - st.cash =
                  (IF Sexp > oc.strike
                   THEN Min(oc.qty * 100, st.shares) * (oc.strike - Sexp)
                   ELSE 0)
             /\ note.pnl = (IF Sexp > oc.strike
                            THEN (oc.premium - (Sexp - oc.strike)) * (oc.qty * 100)
                            ELSE oc.premium * (oc.qty * 100))
     /\ (st.pc = "mark" /\ st.settlementNote # None) =>
          /\ LastEvent(st'.settlements).type = "expiry"
          /\ LastEvent(st'.settlements).pnl = Val(st.settlementNote).pnl]_vars

\* a day whose settlement check has assigned a contract that was sold for
\* less than its intrinsic value, and one settled out of the money before it
C24_Witness ==
  /\ st.pc = "mark"
  /\ st.settlementNote # None
  /\ Val(st.settlementNote).underlying > Val(st.settlementNote).strike
  /\ Val(st.settlementNote).pnl < 0
  /\ st.cash < params.initialCapital
  /\ st.openCall = None
  /\ \E k \in 1..Len(st.settlements) :
       /\ st.settlements[k].type = "expiry"
       /\ st.settlements[k].underlying <= st.settlements[k].strike

ExpiryInRange(s) ==
  s.openCall # None =>
    /\ s.i <= Val(s.openCall).expIdx
    /\ Val(s.openCall).expIdx <= NumDays(s) - 1

\* C26: a position open at any point of day i has an expiry index e with
\* i <= e <= N-1, and one still open after the day's mark-to-market has
\* e > i; so a position is settled on its expiry day and never by the
\* last-day branch of the settlement test.
C26_ExpiryWithinSeries ==
  [][/\ ExpiryInRange(st)
     /\ ExpiryInRange(st')
     /\ (st.pc = "mark" /\ st.openCall # None) => Val(st.openCall).expIdx > st.i
     /\ (st.pc = "settle" /\ st'.settlementNote # None) =>
          /\ Val(st.openCall).expIdx = st.i
          /\ ~(st.i = NumDays(st) - 1 /\ Val(st.openCall).expIdx > st.i)]_vars

\* the head of the last day with a position that a roll re-opened on an
\* earlier day, its expiry capped at the last index
C26_Witness ==
  /\ st.pc = "roll"
  /\ st.i = NumDays(st) - 1
  /\ st.i >= 2
  /\ st.openCall # None
  /\ Val(st.openCall).expIdx = st.i
  /\ Val(st.openCall).sellIdx < st.i
  /\ st.settlements # <<>>
  /\ LastEvent(st.settlements).type = "roll"
  /\ LastEvent(st.settlements).index = Val(st.openCall).sellIdx

\* ------------------------------------------------------------------------
\* Runs with a scheduled roll: a trading week that starts on 2024-12-30 or
\* on 2024-12-31; from the latter the first monthly cycle is a single day
\* ------------------------------------------------------------------------
ScheduleStarts == { StartDate, <<2024, 12, 31>> }

ScheduleParamSet ==
  { [BaseParams EXCEPT !.targetDelta = Some(td), !.freq = f, !.rollDaysBeforeExpiry = off]
    : td \in {3000, 20000}, f \in {"weekly", "monthly"},
      off \in {None, Some(0), Some(30000)} }

ScheduleInit ==
  /\ \E start \in ScheduleStarts, closes \in [1..RollLen -> PriceSet] :
       ohlc = Rows(start, closes)
  /\ params \in ScheduleParamSet
  /\ st = Start(ohlc, params)
  /\ result = None

SpecSchedule == ScheduleInit /\ [][Next]_vars

\* C27: with rolling enabled and a scheduled roll offset configured, 0
\* included, a position open at the head of its expiry day is rolled, not
\* settled; every 'expiry' event, and so every assignment, falls on the last
\* day of the series or on the day the settled position was opened.
C27_ScheduledRollBeforeExpiry ==
  [][(params.enableRoll /\ st.scheduledRollOffset # None) =>
       /\ (st.pc = "roll" /\ st.openCall # None /\ Val(st.openCall).expIdx = st.i) => Rolled
       /\ (st.pc = "settle" /\ st'.settlementNote # None) =>
            (st.i = NumDays(st) - 1 \/ Val(st.openCall).sellIdx = st.i)
       /\ (st.pc = "settle" /\ Len(st'.deliveries) > Len(st.deliveries)) =>
            (st.i = NumDays(st) - 1 \/ Val(st.openCall).sellIdx = st.i)
       /\ (st.pc = "mark" /\ st'.settlements # st.settlements) =>
            /\ LastEvent(st'.settlements).type = "expiry"
            /\ st.settlementNote # None]_vars

\* a finished week that began with a one-day cycle: the contract of day 0
\* expired the day it was sold, the next one was rolled at the head of its
\* expiry day, the last day, and its successor expired there
C27_Witness ==
  /\ result # None
  /\ params.enableRoll
  /\ st.scheduledRollOffset # None
  /\ Len(ohlc) = RollLen
  /\ Len(st.settlements) = 3
  /\ st.settlements[1].type = "expiry" /\ st.settlements[1].index = 0
  /\ st.settlements[2].type = "roll" /\ st.settlements[2].index = Len(ohlc) - 1
  /\ st.settlements[3].type = "expiry" /\ st.settlements[3].index = Len(ohlc) - 1

\* C28: a day has at most one roll event and at most one expiry event, and
\* the settlement log is in day order.  A day has both only when a roll on
\* the last day re-opens a contract that is settled at once: the roll is
\* logged before the expiry, and the curve point of the day carries the
\* expiry event alone.
C28_OneEventOfEachKindPerDay ==
  /\ st.pc \in {"roll", "open", "settle", "mark", "finish", "done"} =>
       \A j, k \in 1..Len(st.settlements) :
         j < k =>
           /\ st.settlements[j].index <= st.settlements[k].index
           /\ st.settlements[j].index = st.settlements[k].index =>
                /\ st.settlements[j].type = "roll"
                /\ st.settlements[k].type = "expiry"
                /\ st.settlements[k].index = NumDays(st) - 1
  /\ result # None =>
       \A k \in 1..Len(st.settlements) :
         LET ev == st.settlements[k]
             point == Val(result).curve[ev.index + 1]
         IN /\ point.settlement # None
            /\ (ev.type = "expiry" \/ k = Len(st.settlements)) =>
                 /\ Val(point.settlement).type = ev.type
                 /\ Val(point.settlement).pnl = ev.pnl
                 /\ Val(point.settlement).strike = ev.strike
            /\ (ev.type = "roll" /\ k < Len(st.settlements)
                  /\ st.settlements[k + 1].index = ev.index) =>
                 /\ Val(point.settlement).type = "expiry"
                 /\ Val(point.settlement).rollReason = "undefined"

\* a finished run whose last day has a roll and then an expiry of different
\* contracts, with the expiry on the curve
C28_Witness ==
  /\ result # None
  /\ Len(st.settlements) >= 2
  /\ LET n == Len(st.settlements)
     IN /\ st.settlements[n - 1].type = "roll"
        /\ st.settlements[n].type = "expiry"
        /\ st.settlements[n - 1].index = st.settlements[n].index
        /\ st.settlements[n - 1].pnl # st.settlements[n].pnl
        /\ Val(Val(result).curve[Len(ohlc)].settlement).type = "expiry"
        /\ Val(Val(result).curve[Len(ohlc)].settlement).pnl = st.settlements[n].pnl

\* C29: the covered-call share count never decreases in the course of a
\* run; with reinvestPremium off it is the starting share count on every
\* day, so ccShares = bhShares in the result.
C29_SharesNeverDecrease ==
  [][/\ st'.shares >= st.shares
     /\ ~params.reinvestPremium => st'.shares = params.shares
     /\ result' # None =>
          /\ Val(result').ccShares = st.shares
          /\ Val(result').ccShares >= Val(result').bhShares
          /\ ~params.reinvestPremium => Val(result').ccShares = Val(result').bhShares]_vars

\* a finished run without reinvestment in which shares were delivered on
\* an assignment, and the covered-call side ends with the starting holding
C29_Witness ==
  /\ result # None
  /\ ~params.reinvestPremium
  /\ st.deliveries # <<>>
  /\ LastEvent(st.deliveries).after < LastEvent(st.deliveries).held
  /\ Val(result).ccShares = params.shares
  /\ Val(result).bhShares = params.shares

\* ------------------------------------------------------------------------
\* findStrikeForTargetDelta, one loop iteration per step: params holds the
\* arguments of the call, st the loop variables i, low and high
\* ------------------------------------------------------------------------
BisectArgs ==
  { [S |-> S, targetDelta |-> td, r |-> 300, q |-> 0, sigma |-> sigma, T |-> T]
    : S \in PriceSet \cup {2500}, td \in {500, 3000, 9500}, sigma \in {0, 3000},
      T \in {Term(1), Term(5), TUNIT \div 5} }

BisectInit ==
  /\ ohlc = <<>>
  /\ params \in BisectArgs
  /\ st = [pc |-> "loop", i |-> 0, low |-> params.S \div 2, high |-> 2 * params.S]
  /\ result = None

\* for (let i = 0; i < 60; i++) { ... }
BisectStep ==
  /\ st.pc = "loop"
  /\ st.i < BisectSteps
  /\ LET b == Narrow(st.low, st.high, params.S, params.targetDelta, params.r, params.q,
                     params.sigma, params.T)
     IN st' = [st EXCEPT !.i = @ + 1, !.low = b[1], !.high = b[2]]
  /\ UNCHANGED <<ohlc, params, result>>

\* return (low + high) / 2
BisectReturn ==
  /\ st.pc = "loop"
  /\ st.i >= BisectSteps
  /\ result' = Some((st.low + st.high) \div 2)
  /\ st' = [st EXCEPT !.pc = "returned"]
  /\ UNCHANGED <<ohlc, params>>

BisectNext == BisectStep \/ BisectReturn

SpecBisect == BisectInit /\ [][BisectNext]_vars

\* C30: findStrikeForTargetDelta runs exactly 60 bisection steps on the
\* bracket [0.5 S, 2 S]; a step moves the lower bound up to the midpoint when
\* callDelta(mid) > targetDelta and the upper bound down to it otherwise,
\* keeps low <= high and halves the width of the bracket (to the unit of the
\* number grid); the loop terminates, its counter rising by one at every
\* step up to 60, and returns the midpoint of the last bracket, a strike
\* within [0.5 S, 2 S].
C30_SixtyBisectionSteps ==
  [][st.pc = "loop" =>
       IF st.i < 60
       THEN LET mid == (st.low + st.high) \div 2
                d == bsCallDelta(params.S, mid, params.r, params.q, params.sigma, params.T)
                width == st.high - st.low
            IN /\ st'.i = st.i + 1
               /\ st'.pc = "loop"
               /\ st'.i <= 60
               /\ result' = None
               /\ IF d > params.targetDelta
                  THEN st'.low = mid /\ st'.high = st.high
                  ELSE st'.low = st.low /\ st'.high = mid
               /\ st'.low <= st'.high
               /\ st'.high - st'.low \in {width \div 2, (width + 1) \div 2}
               /\ params.S \div 2 <= st'.low
               /\ st'.high <= 2 * params.S
       ELSE /\ st.i = 60
            /\ result' # None
            /\ Val(result') = (st.low + st.high) \div 2
            /\ st.low <= Val(result') /\ Val(result') <= st.high
            /\ params.S \div 2 <= Val(result') /\ Val(result') <= 2 * params.S
            /\ Val(result') = findStrikeForTargetDelta(params.S, params.targetDelta, params.r,
                                                       params.q, params.sigma, params.T)]_vars

\* a call that has returned after 60 steps with a strike strictly inside
\* the bracket whose delta is within 0.02 of the target
C30_Witness ==
  /\ result # None
  /\ st.pc = "returned"
  /\ st.i = 60
  /\ params.sigma > 0
  /\ params.S \div 2 < Val(result)
  /\ Val(result) < 2 * params.S
  /\ st.high - st.low <= 1
  /\ Abs(bsCallDelta(params.S, Val(result), params.r, params.q, params.sigma, params.T)
         - params.targetDelta) <= 200
====
